---- MODULE Spec2Model ----
(***************************************************************************)
(* The scull character driver (driver/scull.c): one shared integer,       *)
(* scull_quantum, driven through eight ioctl commands, and a mutex-guarded *)
(* list of the (pid, tgid) pairs of the tasks that issued SCULL_IOCIQUANTUM,*)
(* printed and freed by scull_cleanup_module.                              *)
(*                                                                         *)
(* Callers are tasks that open the device, issue ioctls and close it.      *)
(* An ioctl is cut into steps at its accesses to shared state              *)
(* (scull_quantum, the list, the mutex); what lies between two such        *)
(* accesses touches only the caller's own locals and user memory and is    *)
(* part of the step that follows it.  The return of an ioctl that has      *)
(* accessed shared state is a step of its own: it comes after the last     *)
(* access (and, for GET and EXCHANGE, after a __put_user that may sleep),  *)
(* and whole ioctls of other tasks can run and return in between.  An      *)
(* ioctl that fails before any access to shared state is a single step.    *)
(***************************************************************************)
EXTENDS Integers, Sequences, FiniteSets, TLC

(* ---------------------------------------------------------------- bounds *)

\* Number of concurrent tasks that use the device.
NumCallers == 2

Callers == 1..NumCallers

(* ------------------------------------------------------------- constants *)

\* scull.h (not in src/): the default quantum; spec.md section 8 gives 4000.
SCULL_QUANTUM == 4000
\* scull.h: the ioctl magic number ('k') and the highest command number.
SCULL_IOC_MAGIC == 107
SCULL_IOC_MAXNR == 7
\* Kernel errno values used by scull_ioctl.
ENOTTY == 25
EFAULT == 14
\* sizeof(int) and sizeof(struct task_info) (long, unsigned, int, pid_t,
\* pid_t, unsigned long, unsigned long on a 64-bit build).
SizeofInt == 4
SizeofTaskInfo == 40
\* Offsets of pid and tgid in struct task_info (state, cpu, prio come first).
PidOffset == 16
TgidOffset == 20

\* Owner values of task_info_node_mutex: nobody, or the task that runs
\* scull_init_module / scull_cleanup_module (callers are 1..NumCallers).
NoOwner == -1
ModuleTask == 0

\* The major number a successful dynamic or static registration ends with.
SomeMajor == 240

(* --------------------------------------------------------- ioctl numbers *)

\* _IOC(dir, type, nr, size): the fields _IOC_TYPE, _IOC_NR and _IOC_SIZE read.
IOC(dir, type, nr, size) == [dir |-> dir, type |-> type, nr |-> nr, size |-> size]

SCULL_IOCRESET    == IOC("none", SCULL_IOC_MAGIC, 0, 0)
SCULL_IOCSQUANTUM == IOC("w",    SCULL_IOC_MAGIC, 1, SizeofInt)
SCULL_IOCTQUANTUM == IOC("none", SCULL_IOC_MAGIC, 2, 0)
SCULL_IOCGQUANTUM == IOC("r",    SCULL_IOC_MAGIC, 3, SizeofInt)
SCULL_IOCQQUANTUM == IOC("none", SCULL_IOC_MAGIC, 4, 0)
SCULL_IOCXQUANTUM == IOC("rw",   SCULL_IOC_MAGIC, 5, SizeofInt)
SCULL_IOCHQUANTUM == IOC("none", SCULL_IOC_MAGIC, 6, 0)
SCULL_IOCIQUANTUM == IOC("r",    SCULL_IOC_MAGIC, 7, SizeofTaskInfo)

RecognizedCmds ==
    { SCULL_IOCRESET, SCULL_IOCSQUANTUM, SCULL_IOCTQUANTUM, SCULL_IOCGQUANTUM,
      SCULL_IOCQQUANTUM, SCULL_IOCXQUANTUM, SCULL_IOCHQUANTUM, SCULL_IOCIQUANTUM }

\* Codes that are none of the eight: another driver's magic, a number above
\* SCULL_IOC_MAXNR, and a code with scull's magic and a valid number whose
\* direction and size bits match no case of the switch.
BadMagicCmd == IOC("none", SCULL_IOC_MAGIC + 1, 0, 0)
BadNrCmd    == IOC("none", SCULL_IOC_MAGIC, SCULL_IOC_MAXNR + 1, 0)
NoCaseCmd   == IOC("w",    SCULL_IOC_MAGIC, 0, SizeofInt)

(* ------------------------------------------------------------- arguments *)

\* The third ioctl argument. val is (int)arg, what the by-value commands
\* store; room is the number of bytes from the address arg to the end of the
\* user address range (-1: arg lies beyond it); r says whether the int at arg
\* can be read; w is the number of bytes from arg on that can be written
\* before a write faults; mem is the int stored there.
Arg(val, room, r, w, mem) == [val |-> val, room |-> room, r |-> r, w |-> w, mem |-> mem]

ByValue(v)    == Arg(v, SizeofTaskInfo, FALSE, 0, 0)
PtrRW(m)      == Arg(0, SizeofTaskInfo, TRUE, SizeofTaskInfo, m)
PtrRO(m)      == Arg(0, SizeofTaskInfo, TRUE, 0, m)
PtrUnmapped   == Arg(0, SizeofTaskInfo, FALSE, 0, 0)
PtrBeyond     == Arg(0, -1, FALSE, 0, 0)
\* A buffer whose first k bytes are writable and whose next byte lies on a
\* page that is not.
PtrPartial(k) == Arg(0, SizeofTaskInfo, TRUE, k, 0)

\* The calls the callers make.
Requests ==
    { [cmd |-> SCULL_IOCRESET,    arg |-> ByValue(0)],
      [cmd |-> SCULL_IOCRESET,    arg |-> PtrBeyond],
      [cmd |-> SCULL_IOCSQUANTUM, arg |-> PtrRW(2)],
      [cmd |-> SCULL_IOCSQUANTUM, arg |-> PtrUnmapped],
      [cmd |-> SCULL_IOCSQUANTUM, arg |-> PtrBeyond],
      [cmd |-> SCULL_IOCTQUANTUM, arg |-> ByValue(1)],
      [cmd |-> SCULL_IOCGQUANTUM, arg |-> PtrRW(0)],
      [cmd |-> SCULL_IOCGQUANTUM, arg |-> PtrRO(0)],
      [cmd |-> SCULL_IOCGQUANTUM, arg |-> PtrBeyond],
      [cmd |-> SCULL_IOCQQUANTUM, arg |-> ByValue(0)],
      [cmd |-> SCULL_IOCQQUANTUM, arg |-> PtrBeyond],
      [cmd |-> SCULL_IOCXQUANTUM, arg |-> PtrRW(1)],
      [cmd |-> SCULL_IOCXQUANTUM, arg |-> PtrRO(2)],
      [cmd |-> SCULL_IOCXQUANTUM, arg |-> PtrUnmapped],
      [cmd |-> SCULL_IOCXQUANTUM, arg |-> PtrBeyond],
      [cmd |-> SCULL_IOCHQUANTUM, arg |-> ByValue(1)],
      [cmd |-> SCULL_IOCHQUANTUM, arg |-> ByValue(2)],
      [cmd |-> SCULL_IOCIQUANTUM, arg |-> PtrRW(0)],
      [cmd |-> SCULL_IOCIQUANTUM, arg |-> PtrRO(0)],
      [cmd |-> SCULL_IOCIQUANTUM, arg |-> PtrBeyond],
      [cmd |-> BadMagicCmd,       arg |-> ByValue(1)],
      [cmd |-> BadNrCmd,          arg |-> ByValue(1)],
      [cmd |-> NoCaseCmd,         arg |-> PtrRW(1)],
      [cmd |-> NoCaseCmd,         arg |-> PtrBeyond] }

NoRequest == [cmd |-> IOC("none", 0, 0, 0), arg |-> ByValue(0)]

\* Values scull_quantum can be given as a module parameter at load time.
LoadQuanta == { SCULL_QUANTUM, 2 }

(* ------------------------------------------------------- kernel helpers *)

\* access_ok(addr, size): addr + size does not pass the user address limit.
access_ok(arg, size) == size <= arg.room

\* __get_user(x, ptr): err is 0 and x the value read, or err is -EFAULT and
\* x is set to zero.
get_user(arg) ==
    IF arg.r THEN [err |-> 0, x |-> arg.mem] ELSE [err |-> -EFAULT, x |-> 0]

\* __put_user(x, ptr) of an int: 0, or -EFAULT.
put_user(arg) == IF arg.w >= SizeofInt THEN 0 ELSE -EFAULT

\* copy_to_user(to, from, n): the number of bytes that could not be copied;
\* the bytes before the first one that faults are written.
copy_to_user(arg, n) == IF arg.w >= n THEN 0 ELSE n - arg.w

\* current->pid and current->tgid of a caller: callers 1 and 2 are two threads
\* of process 10, callers 3 and 4 two threads of process 12, and so on.
CurrentPid(c)  == 9 + c
CurrentTgid(c) == 10 + 2 * ((c - 1) \div 2)

Identity(c) == [pid |-> CurrentPid(c), tgid |-> CurrentTgid(c)]

\* What a copy of the first `copied` bytes of tmp_struct leaves in the
\* caller's buffer, of the two fields modelled: pid, then tgid, each once it
\* is written whole.
SnapshotWritten(c, copied) ==
    IF copied >= TgidOffset + SizeofInt THEN << CurrentPid(c), CurrentTgid(c) >>
    ELSE IF copied >= PidOffset + SizeofInt THEN << CurrentPid(c) >>
    ELSE << >>

(* ----------------------------------------------------------------- state *)

VARIABLES
    scull_major,          \* module parameter; the major number once registered
    scull_quantum,        \* the shared quantum (static int, module parameter)
    task_info_node_list,  \* the list of [pid, tgid] nodes, head first
    task_info_node_mutex, \* owner of the mutex, or NoOwner
    lifecycle,            \* position of the module in init / live / cleanup
    acquired,             \* successful cdev_add and chrdev region registrations
    released,             \* calls of cdev_del and unregister_chrdev_region made
    count,                \* scull_cleanup_module's counter
    klog,                 \* the "Task %d: PID %d, TGID %d" lines printed so far
    alloc_err,            \* TRUE once "Failed to allocate memory" was printed
    pc,                   \* per caller: closed, idle, or its place in an ioctl
    req,                  \* per caller: the ioctl in progress (cmd and arg)
    tmp,                  \* per caller: scull_ioctl's local tmp, or the value it read
                          \* from scull_quantum to return or to __put_user
    last,                 \* the most recent ioctl return: req, ret, out
    prev,                 \* the return before last, if no other task had the device open
    inserted,             \* every node ever added to the list, in order
    first_done            \* identities in the order their first IDENTIFY returned 0

vars == << scull_major, scull_quantum, task_info_node_list, task_info_node_mutex,
           lifecycle, acquired, released, count, klog, alloc_err,
           pc, req, tmp, last, prev, inserted, first_done >>

moduleVars == << scull_major, lifecycle, acquired, released, count, klog >>
callerVars == << pc, req, tmp, last, prev >>
listVars   == << task_info_node_list, task_info_node_mutex, alloc_err, inserted >>

NoReturn == [req |-> NoRequest, ret |-> 0, out |-> << >>]

Init ==
    /\ scull_major \in { 0, SomeMajor }
    /\ scull_quantum \in LoadQuanta
    /\ task_info_node_list = << >>
    /\ task_info_node_mutex = NoOwner
    /\ lifecycle = "insmod"
    /\ acquired = [cdev |-> 0, region |-> 0]
    /\ released = [cdev |-> 0, region |-> 0]
    /\ count = 1
    /\ klog = << >>
    /\ alloc_err = FALSE
    /\ pc = [c \in Callers |-> "closed"]
    /\ req = [c \in Callers |-> NoRequest]
    /\ tmp = [c \in Callers |-> 0]
    /\ last = NoReturn
    /\ prev = NoReturn
    /\ inserted = << >>
    /\ first_done = << >>

(* ------------------------------------------------------- list and mutex *)

\* A mutex_lock that does not wait for the owner to unlock.
mutex_lock_nowait(owner) ==
    /\ task_info_node_mutex' = owner

\* mutex_lock: taken only when free (the caller sleeps otherwise).
mutex_lock(owner) ==
    /\ task_info_node_mutex = NoOwner
    /\ task_info_node_mutex' = owner

\* A mutex_unlock that leaves the mutex with its owner.
mutex_unlock_skipped(owner) ==
    /\ task_info_node_mutex' = task_info_node_mutex

\* mutex_unlock: the mutex is free again.
mutex_unlock(owner) ==
    /\ task_info_node_mutex' = NoOwner

\* A scan that compares the thread group only.
NodeMatchesTgidOnly(node, c) == node.tgid = CurrentTgid(c)

\* The test of the scan loop: the node is the current task's.
NodeMatches(node, c) == node.pid = CurrentPid(c) /\ node.tgid = CurrentTgid(c)

\* A scan that looks at the first node only.
FoundHeadOnly(list, c) == Len(list) > 0 /\ NodeMatches(list[1], c)

\* list_for_each_entry ... found = true; break.
Found(list, c) == \E i \in 1..Len(list) : NodeMatches(list[i], c)

\* list_add, which inserts after the head instead of before it.
list_add_head(node, list) == << node >> \o list

list_add_tail(node, list) == Append(list, node)

(* ------------------------------------------------------- module loading *)

\* scull_init_module, first half: register_chrdev_region or
\* alloc_chrdev_region; on failure the function returns at once.
InitRegion(ok) ==
    /\ lifecycle = "insmod"
    /\ IF ok
         THEN /\ acquired' = [acquired EXCEPT !.region = @ + 1]
              /\ scull_major' = SomeMajor
              /\ lifecycle' = "cdev_add"
         ELSE /\ acquired' = acquired
              /\ scull_major' = scull_major
              /\ lifecycle' = "load_failed"
    /\ UNCHANGED << scull_quantum, released, count, klog >>
    /\ UNCHANGED << callerVars, listVars, first_done >>

\* scull_init_module, second half: cdev_init and cdev_add; on failure
\* goto fail, which calls scull_cleanup_module.
InitCdev(ok) ==
    /\ lifecycle = "cdev_add"
    /\ acquired' = IF ok THEN [acquired EXCEPT !.cdev = @ + 1] ELSE acquired
    /\ lifecycle' = IF ok THEN "live" ELSE "cleanup_lock"
    /\ UNCHANGED << scull_major, scull_quantum, released, count, klog >>
    /\ UNCHANGED << callerVars, listVars, first_done >>

(* --------------------------------------------------------- open / close *)

\* scull_open: the device can be opened while it is live; every open file
\* holds a reference on the module (.owner = THIS_MODULE).
Open(c) ==
    /\ lifecycle = "live"
    /\ pc[c] = "closed"
    /\ pc' = [pc EXCEPT ![c] = "idle"]
    /\ prev' = IF \A d \in Callers \ {c} : pc[d] = "closed" THEN prev ELSE NoReturn
    /\ UNCHANGED << scull_quantum, moduleVars, listVars, req, tmp, last, first_done >>

\* scull_release
Release(c) ==
    /\ pc[c] = "idle"
    /\ pc' = [pc EXCEPT ![c] = "closed"]
    /\ UNCHANGED << scull_quantum, moduleVars, listVars, req, tmp, last, prev, first_done >>

(* ---------------------------------------------------------------- ioctl *)

\* The ioctl of caller c returns ret; out is what it wrote to user memory.
Return(c, r, ret, out) ==
    /\ pc' = [pc EXCEPT ![c] = "idle"]
    /\ req' = [req EXCEPT ![c] = NoRequest]
    /\ tmp' = [tmp EXCEPT ![c] = 0]
    /\ last' = [req |-> r, ret |-> ret, out |-> out]
    /\ prev' = IF \A d \in Callers \ {c} : pc[d] = "closed" THEN last ELSE NoReturn

\* The ioctl of caller c goes on at place p, with tmp set to t.
Proceed(c, r, p, t) ==
    /\ pc' = [pc EXCEPT ![c] = p]
    /\ req' = [req EXCEPT ![c] = r]
    /\ tmp' = [tmp EXCEPT ![c] = t]
    /\ last' = last
    /\ prev' = prev

\* A RESET that leaves the quantum as it is.
ResetValueKept == scull_quantum

\* What the RESET case stores.
ResetValue == SCULL_QUANTUM

\* What the QUERY case returns.
QueryResult == scull_quantum

\* A TELL that stores zero whatever its argument.
TellValueZero(r) == 0

\* What the TELL case stores: scull_quantum = arg.
TellValue(r) == r.arg.val

\* scull_ioctl from its entry to its first access to shared state: the
\* checks of the command code, access_ok, and the first read or write of
\* scull_quantum. A call that fails before any such access returns here.
\* RESET, SET and TELL store and have only their return left; GET and QUERY
\* read the value they hand out later; EXCHANGE and SHIFT read scull_quantum
\* into tmp and write it in a later step; IDENTIFY copies the snapshot to
\* the user and, if all of it was copied, goes on to take the mutex.
Ioctl(c, r) ==
    /\ pc[c] = "idle"
    /\ UNCHANGED << moduleVars, listVars, first_done >>
    /\ IF r.cmd.type # SCULL_IOC_MAGIC \/ r.cmd.nr > SCULL_IOC_MAXNR
         THEN /\ Return(c, r, -ENOTTY, << >>)
              /\ UNCHANGED scull_quantum
       ELSE IF ~access_ok(r.arg, r.cmd.size)
         THEN /\ Return(c, r, -EFAULT, << >>)
              /\ UNCHANGED scull_quantum
       ELSE IF r.cmd = SCULL_IOCRESET
         THEN /\ scull_quantum' = ResetValue
              /\ Proceed(c, r, "ret", 0)
       ELSE IF r.cmd = SCULL_IOCSQUANTUM
         THEN /\ scull_quantum' = get_user(r.arg).x
              /\ Proceed(c, r, "ret", 0)
       ELSE IF r.cmd = SCULL_IOCTQUANTUM
         THEN /\ scull_quantum' = TellValue(r)
              /\ Proceed(c, r, "ret", 0)
       ELSE IF r.cmd = SCULL_IOCGQUANTUM
         THEN /\ UNCHANGED scull_quantum
              /\ Proceed(c, r, "ret", scull_quantum)
       ELSE IF r.cmd = SCULL_IOCQQUANTUM
         THEN /\ UNCHANGED scull_quantum
              /\ Proceed(c, r, "ret", QueryResult)
       ELSE IF r.cmd = SCULL_IOCXQUANTUM
         THEN /\ UNCHANGED scull_quantum
              /\ Proceed(c, r, "xchg_get", scull_quantum)
       ELSE IF r.cmd = SCULL_IOCHQUANTUM
         THEN /\ UNCHANGED scull_quantum
              /\ Proceed(c, r, "shift_set", scull_quantum)
       ELSE IF r.cmd = SCULL_IOCIQUANTUM
         THEN /\ UNCHANGED scull_quantum
              /\ IF copy_to_user(r.arg, SizeofTaskInfo) # 0
                   THEN Return(c, r, copy_to_user(r.arg, SizeofTaskInfo),
                               SnapshotWritten(c, SizeofTaskInfo
                                                  - copy_to_user(r.arg, SizeofTaskInfo)))
                   ELSE Proceed(c, r, "lock", 0)
       ELSE /\ Return(c, r, -ENOTTY, << >>)
            /\ UNCHANGED scull_quantum

\* SCULL_IOCXQUANTUM after tmp = scull_quantum: __get_user into
\* scull_quantum (zero on a fault). __put_user and the return follow.
ExchangeGet(c) ==
    /\ pc[c] = "xchg_get"
    /\ scull_quantum' = get_user(req[c].arg).x
    /\ pc' = [pc EXCEPT ![c] = "ret"]
    /\ UNCHANGED << moduleVars, listVars, req, tmp, last, prev, first_done >>

\* SCULL_IOCHQUANTUM after tmp = scull_quantum: scull_quantum = arg.
\* The return of tmp follows.
ShiftSet(c) ==
    /\ pc[c] = "shift_set"
    /\ scull_quantum' = req[c].arg.val
    /\ pc' = [pc EXCEPT ![c] = "ret"]
    /\ UNCHANGED << moduleVars, listVars, req, tmp, last, prev, first_done >>

\* An EXCHANGE that writes back the value it has just read from the reference.
ExchangeOutNew(c) == get_user(req[c].arg).x

\* What EXCHANGE's __put_user stores in the reference: tmp.
ExchangeOut(c) == tmp[c]

\* A SHIFT that returns the value it stores.
ShiftResultNew(c) == req[c].arg.val

\* What the SHIFT case returns: tmp.
ShiftResult(c) == tmp[c]

\* What scull_ioctl returns when caller c, past its last access to shared
\* state, reaches its return: retval, or the value read for QUERY and SHIFT.
\* EXCHANGE calls __put_user only if its __get_user worked.
RetVal(c) ==
    IF req[c].cmd = SCULL_IOCSQUANTUM THEN get_user(req[c].arg).err
    ELSE IF req[c].cmd = SCULL_IOCGQUANTUM THEN put_user(req[c].arg)
    ELSE IF req[c].cmd = SCULL_IOCQQUANTUM THEN tmp[c]
    ELSE IF req[c].cmd = SCULL_IOCXQUANTUM
      THEN IF get_user(req[c].arg).err = 0
             THEN put_user(req[c].arg)
             ELSE get_user(req[c].arg).err
    ELSE IF req[c].cmd = SCULL_IOCHQUANTUM THEN ShiftResult(c)
    ELSE 0

\* What is in the caller's memory at arg when the call returns: the value
\* GET read from scull_quantum, EXCHANGE's tmp, IDENTIFY's snapshot (written
\* by copy_to_user before the mutex was taken); nothing if the write faulted.
OutVal(c) ==
    IF req[c].cmd = SCULL_IOCGQUANTUM
      THEN IF put_user(req[c].arg) = 0 THEN << tmp[c] >> ELSE << >>
    ELSE IF req[c].cmd = SCULL_IOCXQUANTUM
      THEN IF get_user(req[c].arg).err = 0 /\ put_user(req[c].arg) = 0
             THEN << ExchangeOut(c) >> ELSE << >>
    ELSE IF req[c].cmd = SCULL_IOCIQUANTUM
      THEN SnapshotWritten(c, SizeofTaskInfo)
    ELSE << >>

\* SCULL_IOCIQUANTUM: mutex_lock(&task_info_node_mutex).
IdentifyLock(c) ==
    /\ pc[c] = "lock"
    /\ mutex_lock(c)
    /\ pc' = [pc EXCEPT ![c] = "scan"]
    /\ UNCHANGED << scull_quantum, moduleVars, task_info_node_list, alloc_err,
                    inserted, req, tmp, last, prev, first_done >>

\* A scan whose result is ignored: the insert follows in any case.
IdentifyScanIgnored(c) ==
    /\ pc[c] = "scan"
    /\ pc' = [pc EXCEPT ![c] = "insert"]
    /\ UNCHANGED << scull_quantum, moduleVars, listVars, req, tmp, last, prev, first_done >>

\* SCULL_IOCIQUANTUM: the scan of the list for the current task.
IdentifyScan(c) ==
    /\ pc[c] = "scan"
    /\ pc' = [pc EXCEPT ![c] = IF Found(task_info_node_list, c) THEN "unlock" ELSE "insert"]
    /\ UNCHANGED << scull_quantum, moduleVars, listVars, req, tmp, last, prev, first_done >>

\* An insert whose allocation failure ends the call at once with -ENOMEM
\* (errno 12), the mutex still held.
IdentifyInsertFatal(c, ok) ==
    /\ pc[c] = "insert"
    /\ IF ok
         THEN /\ task_info_node_list' = list_add_tail(Identity(c), task_info_node_list)
              /\ inserted' = Append(inserted, Identity(c))
              /\ alloc_err' = alloc_err
              /\ pc' = [pc EXCEPT ![c] = "unlock"]
              /\ UNCHANGED << req, tmp, last, prev >>
         ELSE /\ alloc_err' = TRUE
              /\ UNCHANGED << task_info_node_list, inserted >>
              /\ Return(c, req[c], -12, << >>)
    /\ UNCHANGED << scull_quantum, moduleVars, task_info_node_mutex, first_done >>

\* SCULL_IOCIQUANTUM, not found: kmalloc, which may fail (ok = FALSE), and
\* list_add_tail of the new node.
IdentifyInsert(c, ok) ==
    /\ pc[c] = "insert"
    /\ IF ok
         THEN /\ task_info_node_list' = list_add_tail(Identity(c), task_info_node_list)
              /\ inserted' = Append(inserted, Identity(c))
              /\ alloc_err' = alloc_err
         ELSE /\ alloc_err' = TRUE
              /\ UNCHANGED << task_info_node_list, inserted >>
    /\ pc' = [pc EXCEPT ![c] = "unlock"]
    /\ UNCHANGED << scull_quantum, moduleVars, task_info_node_mutex, req, tmp, last, prev, first_done >>

\* SCULL_IOCIQUANTUM: mutex_unlock(&task_info_node_mutex).
IdentifyUnlock(c) ==
    /\ pc[c] = "unlock"
    /\ mutex_unlock(c)
    /\ pc' = [pc EXCEPT ![c] = "ret"]
    /\ UNCHANGED << scull_quantum, moduleVars, task_info_node_list, alloc_err,
                    inserted, req, tmp, last, prev, first_done >>

\* The end of scull_ioctl after its last access to shared state: GET's and
\* EXCHANGE's __put_user, break, return retval (QUERY and SHIFT return from
\* inside the switch).
IoctlReturn(c) ==
    /\ pc[c] = "ret"
    /\ Return(c, req[c], RetVal(c), OutVal(c))
    /\ first_done' = IF \/ req[c].cmd # SCULL_IOCIQUANTUM
                        \/ \E i \in 1..Len(first_done) : first_done[i] = Identity(c)
                       THEN first_done
                       ELSE Append(first_done, Identity(c))
    /\ UNCHANGED << scull_quantum, moduleVars, listVars >>

(* -------------------------------------------------------------- cleanup *)

\* A module_exit that does not wait for the open files (no module reference
\* held by them).
ModuleExitWithOpenFiles ==
    /\ lifecycle = "live"
    /\ lifecycle' = "cleanup_lock"
    /\ UNCHANGED << scull_major, scull_quantum, acquired, released,
                    count, klog, callerVars, listVars, first_done >>

\* module_exit: rmmod runs scull_cleanup_module once no file is open.
ModuleExit ==
    /\ lifecycle = "live"
    /\ \A c \in Callers : pc[c] = "closed"
    /\ lifecycle' = "cleanup_lock"
    /\ UNCHANGED << scull_major, scull_quantum, acquired, released,
                    count, klog, callerVars, listVars, first_done >>

\* scull_cleanup_module: int count = 1; mutex_lock.
CleanupLock ==
    /\ lifecycle = "cleanup_lock"
    /\ mutex_lock(ModuleTask)
    /\ count' = 1
    /\ lifecycle' = "cleanup_loop"
    /\ UNCHANGED << scull_major, scull_quantum, acquired, released,
                    klog, callerVars, task_info_node_list, alloc_err, inserted, first_done >>

\* The line printk writes for a node: "Task %d: PID %d, TGID %d".
ReportLine(n, node) == [count |-> n, pid |-> node.pid, tgid |-> node.tgid]

\* The lines a whole run of the drain loop prints for a list, its counter
\* starting at n.
RECURSIVE DrainReport(_, _)
DrainReport(list, n) ==
    IF list = << >>
      THEN << >>
      ELSE << ReportLine(n, Head(list)) >> \o DrainReport(Tail(list), n + 1)

\* One pass of list_for_each_entry_safe: printk, list_del, kfree, count++.
CleanupEntry ==
    /\ lifecycle = "cleanup_loop"
    /\ task_info_node_list # << >>
    /\ klog' = Append(klog, ReportLine(count, Head(task_info_node_list)))
    /\ task_info_node_list' = Tail(task_info_node_list)
    /\ count' = count + 1
    /\ UNCHANGED << scull_major, scull_quantum, lifecycle, acquired,
                    released, callerVars, task_info_node_mutex, alloc_err, inserted,
                    first_done >>

\* A loop that may stop before it has reached the list head.
CleanupUnlockEarly ==
    /\ lifecycle = "cleanup_loop"
    /\ mutex_unlock(ModuleTask)
    /\ lifecycle' = "cdev_del"
    /\ UNCHANGED << scull_major, scull_quantum, acquired, released,
                    count, klog, callerVars, task_info_node_list, alloc_err, inserted,
                    first_done >>

\* The loop ends at the list head: mutex_unlock.
CleanupUnlock ==
    /\ lifecycle = "cleanup_loop"
    /\ task_info_node_list = << >>
    /\ mutex_unlock(ModuleTask)
    /\ lifecycle' = "cdev_del"
    /\ UNCHANGED << scull_major, scull_quantum, acquired, released,
                    count, klog, callerVars, task_info_node_list, alloc_err, inserted,
                    first_done >>

\* cdev_del(&scull_cdev), called whether or not cdev_add succeeded.
CleanupCdevDel ==
    /\ lifecycle = "cdev_del"
    /\ released' = [released EXCEPT !.cdev = @ + 1]
    /\ lifecycle' = "unregister"
    /\ UNCHANGED << scull_major, scull_quantum, acquired, count, klog,
                    callerVars, listVars, first_done >>

\* unregister_chrdev_region(devno, 1).
CleanupUnregister ==
    /\ lifecycle = "unregister"
    /\ released' = [released EXCEPT !.region = @ + 1]
    /\ lifecycle' = "unloaded"
    /\ UNCHANGED << scull_major, scull_quantum, acquired, count, klog,
                    callerVars, listVars, first_done >>

(* -------------------------------------------------------- specification *)

\* The calls of the tasks that run side by side: those that get as far as
\* scull_quantum or the mutex. A call that is rejected by the checks of the
\* command code or of access_ok, or an IDENTIFY whose copy_to_user fails,
\* reads and writes no shared state and is a single step, so that it
\* overlaps no other call; the single task of NextSeq issues them.
ConcurrentRequests ==
    { r \in Requests :
        /\ r.cmd \in RecognizedCmds
        /\ access_ok(r.arg, r.cmd.size)
        /\ r.cmd = SCULL_IOCIQUANTUM => copy_to_user(r.arg, SizeofTaskInfo) = 0 }

\* The driver under concurrent callers issuing those requests.
Next ==
    \/ \E ok \in BOOLEAN : InitRegion(ok)
    \/ \E ok \in BOOLEAN : InitCdev(ok)
    \/ \E c \in Callers : Open(c)
    \/ \E c \in Callers : Release(c)
    \/ \E c \in Callers : \E r \in ConcurrentRequests : Ioctl(c, r)
    \/ \E c \in Callers : ExchangeGet(c)
    \/ \E c \in Callers : ShiftSet(c)
    \/ \E c \in Callers : IdentifyLock(c)
    \/ \E c \in Callers : IdentifyScan(c)
    \/ \E c \in Callers : \E ok \in BOOLEAN : IdentifyInsert(c, ok)
    \/ \E c \in Callers : IdentifyUnlock(c)
    \/ \E c \in Callers : IoctlReturn(c)
    \/ ModuleExit
    \/ CleanupLock
    \/ CleanupEntry
    \/ CleanupUnlock
    \/ CleanupCdevDel
    \/ CleanupUnregister

Spec == Init /\ [][Next]_vars

\* The calls of the tasks that exercise the registry: IDENTIFY with a
\* writable and with a read-only buffer.
RegistryRequests ==
    { r \in Requests : r.cmd = SCULL_IOCIQUANTUM /\ access_ok(r.arg, r.cmd.size) }

\* The driver under concurrent callers that issue the registry's requests.
NextRegistry ==
    \/ \E ok \in BOOLEAN : InitRegion(ok)
    \/ \E ok \in BOOLEAN : InitCdev(ok)
    \/ \E c \in Callers : Open(c)
    \/ \E c \in Callers : Release(c)
    \/ \E c \in Callers : \E r \in RegistryRequests : Ioctl(c, r)
    \/ \E c \in Callers : IdentifyLock(c)
    \/ \E c \in Callers : IdentifyScan(c)
    \/ \E c \in Callers : \E ok \in BOOLEAN : IdentifyInsert(c, ok)
    \/ \E c \in Callers : IdentifyUnlock(c)
    \/ \E c \in Callers : IoctlReturn(c)
    \/ ModuleExit
    \/ CleanupLock
    \/ CleanupEntry
    \/ CleanupUnlock
    \/ CleanupCdevDel
    \/ CleanupUnregister

SpecRegistry == Init /\ [][NextRegistry]_vars

\* The calls of the single task: those above, an EXCHANGE whose reference
\* holds 2, a SET and a TELL of negative values, and IDENTIFYs whose buffer
\* is writable up to the end of state (8 bytes) and up to the end of pid.
SeqRequests ==
    Requests \cup
    { [cmd |-> SCULL_IOCIQUANTUM, arg |-> PtrPartial(8)],
      [cmd |-> SCULL_IOCIQUANTUM, arg |-> PtrPartial(PidOffset + SizeofInt)],
      [cmd |-> SCULL_IOCXQUANTUM, arg |-> PtrRW(2)],
      [cmd |-> SCULL_IOCSQUANTUM, arg |-> PtrRW(-EFAULT)],
      [cmd |-> SCULL_IOCTQUANTUM, arg |-> ByValue(-ENOTTY)] }

\* The driver used by a single task (caller 1) issuing any of the requests,
\* one after the other: no ioctl overlaps another.
NextSeq ==
    \/ \E ok \in BOOLEAN : InitRegion(ok)
    \/ \E ok \in BOOLEAN : InitCdev(ok)
    \/ Open(1)
    \/ Release(1)
    \/ \E r \in SeqRequests : Ioctl(1, r)
    \/ ExchangeGet(1)
    \/ ShiftSet(1)
    \/ IdentifyLock(1)
    \/ IdentifyScan(1)
    \/ \E ok \in BOOLEAN : IdentifyInsert(1, ok)
    \/ IdentifyUnlock(1)
    \/ IoctlReturn(1)
    \/ ModuleExit
    \/ CleanupLock
    \/ CleanupEntry
    \/ CleanupUnlock
    \/ CleanupCdevDel
    \/ CleanupUnregister

SpecSeq == Init /\ [][NextSeq]_vars

\* The calls of the tasks that use the registry and the two-step quantum
\* commands side by side.
LiveRequests ==
    RegistryRequests \cup
    { [cmd |-> SCULL_IOCXQUANTUM, arg |-> PtrRW(1)],
      [cmd |-> SCULL_IOCHQUANTUM, arg |-> ByValue(2)] }

\* The driver under concurrent callers that issue those requests.
NextLive ==
    \/ \E ok \in BOOLEAN : InitRegion(ok)
    \/ \E ok \in BOOLEAN : InitCdev(ok)
    \/ \E c \in Callers : Open(c)
    \/ \E c \in Callers : Release(c)
    \/ \E c \in Callers : \E r \in LiveRequests : Ioctl(c, r)
    \/ \E c \in Callers : ExchangeGet(c)
    \/ \E c \in Callers : ShiftSet(c)
    \/ \E c \in Callers : IdentifyLock(c)
    \/ \E c \in Callers : IdentifyScan(c)
    \/ \E c \in Callers : \E ok \in BOOLEAN : IdentifyInsert(c, ok)
    \/ \E c \in Callers : IdentifyUnlock(c)
    \/ \E c \in Callers : IoctlReturn(c)
    \/ ModuleExit
    \/ CleanupLock
    \/ CleanupEntry
    \/ CleanupUnlock
    \/ CleanupCdevDel
    \/ CleanupUnregister

\* Scheduling: a task that can run its next step is eventually scheduled
\* (weak fairness of every step inside scull_ioctl and
\* scull_cleanup_module), and a task sleeping in mutex_lock gets the mutex
\* if it is released again and again (strong fairness: the kernel mutex
\* queues its waiters and hands the lock over to the first of them).
\* Nothing obliges a task to open or close the device, to issue an ioctl, or
\* the module to be removed.
Scheduling ==
    /\ \A c \in Callers :
          /\ WF_vars(ExchangeGet(c))
          /\ WF_vars(ShiftSet(c))
          /\ SF_vars(IdentifyLock(c))
          /\ WF_vars(IdentifyScan(c))
          /\ WF_vars(\E ok \in BOOLEAN : IdentifyInsert(c, ok))
          /\ WF_vars(IdentifyUnlock(c))
          /\ WF_vars(IoctlReturn(c))
    /\ WF_vars(CleanupLock)
    /\ WF_vars(CleanupEntry)
    /\ WF_vars(CleanupUnlock)
    /\ WF_vars(CleanupCdevDel)
    /\ WF_vars(CleanupUnregister)

SpecLive == Init /\ [][NextLive]_vars /\ Scheduling

(* ---------------------------------------------------------------- claims *)

Range(seq) == { seq[i] : i \in 1..Len(seq) }

\* The (pid, tgid) pairs of the teardown report, in the order printed.
ReportedIds == [i \in 1..Len(klog) |-> [pid |-> klog[i].pid, tgid |-> klog[i].tgid]]

\* The place of an identity in the report (0: not reported).
ReportPos(id) ==
    IF id \in Range(ReportedIds)
      THEN CHOOSE k \in 1..Len(klog) : ReportedIds[k] = id
      ELSE 0

CleanupDrained == lifecycle \in { "cdev_del", "unregister", "unloaded" }

\* C1: when no allocation failed, the teardown report holds exactly one
\* entry for every identity that completed at least one IDENTIFY: no
\* duplicate, no lost entry, and every reported pair is a caller's identity.
C1_RegistryUniqueness ==
    (lifecycle = "unloaded" /\ ~alloc_err) =>
        /\ Range(ReportedIds) = Range(first_done)
        /\ Len(klog) = Cardinality(Range(first_done))
        /\ \A i \in 1..Len(klog) : \E c \in Callers : ReportedIds[i] = Identity(c)

\* Every caller was reported once although the last two IDENTIFY calls came
\* from the same identity.
C1_Witness ==
    /\ lifecycle = "unloaded"
    /\ ~alloc_err
    /\ Len(klog) = NumCallers
    /\ last.req.cmd = SCULL_IOCIQUANTUM /\ last.ret = 0
    /\ prev.req.cmd = SCULL_IOCIQUANTUM /\ prev.ret = 0
    /\ prev.out = last.out

\* C2 as stated: the report lists the identities in the order in which their
\* first IDENTIFY call completed: of two reported identities, the one whose
\* first IDENTIFY completed first is reported first.
C2_OrderOfFirstCompletion ==
    lifecycle = "unloaded" =>
        \A i, j \in 1..Len(first_done) :
            (i < j /\ ReportPos(first_done[i]) > 0 /\ ReportPos(first_done[j]) > 0)
                => ReportPos(first_done[i]) < ReportPos(first_done[j])

\* C2 as amended: the report lists the identities in the order in which
\* their nodes were inserted; until the drain the list is the sequence of
\* insertions, so no later IDENTIFY moves an entry.
C2_OrderOfInsertion ==
    /\ ~CleanupDrained /\ lifecycle # "cleanup_loop" => task_info_node_list = inserted
    /\ lifecycle = "unloaded" =>
          \A i, j \in 1..Len(inserted) :
              i < j => /\ ReportPos(inserted[i]) > 0
                       /\ ReportPos(inserted[i]) < ReportPos(inserted[j])

\* The report is in insertion order, which is not the order in which the
\* first IDENTIFY calls completed, although no allocation failed: the call
\* that inserted first returned last.
C2_Witness ==
    /\ lifecycle = "unloaded"
    /\ ~alloc_err
    /\ Len(klog) >= 2
    /\ ReportedIds = inserted
    /\ ReportedIds # first_done
    /\ Range(ReportedIds) = Range(first_done)

\* C3 as stated, on the claim's own instance: two overlapping SHIFT(a) and
\* SHIFT(b), with a, b and the value one of them read pairwise different,
\* never both return that value (in any sequential order the second SHIFT
\* returns what the first one stored).
C3_ShiftsSerialize ==
    \A c, d \in Callers :
        ( /\ c # d
          /\ pc[c] = "shift_set" /\ pc[d] = "shift_set"
          /\ req[c].arg.val # req[d].arg.val
          /\ tmp[c] # req[c].arg.val /\ tmp[c] # req[d].arg.val )
            => tmp[c] # tmp[d]

\* C4 as stated: an ioctl whose command code is none of the eight returns
\* -ENOTTY and leaves scull_quantum and the list as they were.
C4_InvalidCommandRejected ==
    [][ \A c \in Callers : \A r \in Requests :
          (r.cmd \notin RecognizedCmds /\ Ioctl(c, r))
            => /\ last'.ret = -ENOTTY
               /\ scull_quantum' = scull_quantum
               /\ task_info_node_list' = task_info_node_list ]_vars

\* The commands whose argument is a reference.
ReferenceCmds ==
    { SCULL_IOCSQUANTUM, SCULL_IOCGQUANTUM, SCULL_IOCXQUANTUM, SCULL_IOCIQUANTUM }

\* The region a request refers to is out of range, or cannot be read by a
\* command that reads it (_IOW, _IOWR), or cannot be written by a command
\* that writes it (_IOR, _IOWR).
RegionInaccessible(r) ==
    \/ ~access_ok(r.arg, r.cmd.size)
    \/ r.cmd.dir \in { "w", "rw" } /\ ~r.arg.r
    \/ r.cmd.dir \in { "r", "rw" } /\ r.arg.w < r.cmd.size

\* C5 as stated: no step of a SET, GET, EXCHANGE or IDENTIFY whose region is
\* inaccessible (every such call fails) changes scull_quantum or the list.
C5_NoChangeOnBadRegion ==
    [][ \A c \in Callers :
          /\ \A r \in SeqRequests :
               ( /\ r.cmd \in ReferenceCmds
                 /\ RegionInaccessible(r)
                 /\ Ioctl(c, r) )
                 => /\ scull_quantum' = scull_quantum
                    /\ task_info_node_list' = task_info_node_list
          /\ ( /\ req[c].cmd \in ReferenceCmds
               /\ RegionInaccessible(req[c])
               /\ (ExchangeGet(c) \/ IoctlReturn(c)) )
                 => /\ scull_quantum' = scull_quantum
                    /\ task_info_node_list' = task_info_node_list ]_vars

\* C6 as stated: a SET, GET, EXCHANGE or IDENTIFY whose region is
\* inaccessible returns -EFAULT.
C6_BadRegionReturnsEFAULT ==
    (last.req.cmd \in ReferenceCmds /\ RegionInaccessible(last.req))
        => last.ret = -EFAULT

\* C7 as stated: teardown releases the endpoint only if cdev_add registered
\* it and the device number region only if it was reserved, each once.
C7_ReleaseOnlyAcquired ==
    /\ released.cdev <= acquired.cdev
    /\ released.region <= acquired.region

\* C8: once the drain has run, the report is the sequence of all nodes ever
\* inserted, numbered 1, 2, ..., n in insertion order, the list is empty, and
\* no caller is left that could insert another node.
C8_ReportComplete ==
    CleanupDrained =>
        /\ klog = [i \in 1..Len(inserted) |->
                     [count |-> i, pid |-> inserted[i].pid, tgid |-> inserted[i].tgid]]
        /\ task_info_node_list = << >>
        /\ \A c \in Callers : pc[c] = "closed"

\* The drain has just reported two or more nodes of a module that was live.
C8_Witness ==
    /\ lifecycle = "cdev_del"
    /\ acquired.cdev = 1
    /\ Len(klog) >= 2
    /\ klog[Len(klog)].count = Len(inserted)

\* The places of IDENTIFY between mutex_lock and mutex_unlock.
InRegistrySection(c) == pc[c] \in { "scan", "insert", "unlock" }

\* C9: at most one task is inside the locked section (an IDENTIFY between
\* lock and unlock, or the drain loop), and the task inside it owns the mutex.
C9_MutualExclusion ==
    /\ \A c \in Callers : InRegistrySection(c) => task_info_node_mutex = c
    /\ lifecycle = "cleanup_loop" => task_info_node_mutex = ModuleTask
    /\ \A c, d \in Callers : (InRegistrySection(c) /\ InRegistrySection(d)) => c = d
    /\ \A c \in Callers : ~(InRegistrySection(c) /\ lifecycle = "cleanup_loop")

\* One IDENTIFY is about to insert while another waits for the mutex.
C9_Witness ==
    \E c, d \in Callers :
        /\ c # d
        /\ pc[c] = "insert"
        /\ pc[d] = "lock"
        /\ task_info_node_mutex = c

\* C10: a QUERY that directly follows a RESET returns SCULL_QUANTUM, whatever
\* scull_quantum was before (load-time value included).  The RESET is one that
\* was carried out (returned 0) and the QUERY one that passed the checks of
\* lines 92-96; a call rejected there does nothing, see C4 and C5.
C10_ResetThenQuery ==
    ( /\ prev.req.cmd = SCULL_IOCRESET /\ prev.ret = 0
      /\ last.req.cmd = SCULL_IOCQQUANTUM /\ access_ok(last.req.arg, last.req.cmd.size) )
        => last.ret = SCULL_QUANTUM

\* RESET then QUERY were run and QUERY returned the default.
C10_Witness ==
    /\ prev.req.cmd = SCULL_IOCRESET /\ prev.ret = 0
    /\ last.req.cmd = SCULL_IOCQQUANTUM
    /\ last.ret = SCULL_QUANTUM

\* A call that passed the checks before the switch and returned 0.
Succeeded(ret) ==
    /\ ret.req.cmd \in RecognizedCmds
    /\ access_ok(ret.req.arg, ret.req.cmd.size)
    /\ ret.ret = 0

\* The call is one that sets scull_quantum to a value given by its request
\* alone (RESET, SET, TELL, EXCHANGE, SHIFT) and it was carried out: it
\* passed the checks before the switch and, unless it is a SHIFT, whose
\* return value is the old quantum, it returned 0.
SetsQuantum(ret) ==
    /\ ret.req.cmd \in { SCULL_IOCRESET, SCULL_IOCSQUANTUM, SCULL_IOCTQUANTUM,
                         SCULL_IOCXQUANTUM, SCULL_IOCHQUANTUM }
    /\ access_ok(ret.req.arg, ret.req.cmd.size)
    /\ ret.req.cmd # SCULL_IOCHQUANTUM => ret.ret = 0

\* The value such a call stores: the default for RESET, arg for TELL and
\* SHIFT, what the reference holds for SET and EXCHANGE.
ValueSet(ret) ==
    IF ret.req.cmd = SCULL_IOCRESET THEN SCULL_QUANTUM
    ELSE IF ret.req.cmd \in { SCULL_IOCTQUANTUM, SCULL_IOCHQUANTUM }
      THEN ret.req.arg.val
    ELSE ret.req.arg.mem

\* C11: a successful EXCHANGE whose reference holds v, run with quantum q and
\* no other call under way, leaves scull_quantum = v and q in the reference;
\* a second successful EXCHANGE whose reference holds that q, run right after
\* it, brings scull_quantum back to q and leaves v in the reference.
C11_ExchangeRoundTrip ==
    [][ \A c \in Callers :
          /\ (ExchangeGet(c) /\ RetVal(c) = 0)
                => /\ ExchangeOut(c) = scull_quantum
                   /\ scull_quantum' = req[c].arg.mem
          /\ (IoctlReturn(c) /\ req[c].cmd = SCULL_IOCXQUANTUM /\ last'.ret = 0)
                => /\ scull_quantum' = req[c].arg.mem
                   /\ last'.out = << ExchangeOut(c) >>
                   /\ SetsQuantum(prev')
                        => last'.out = << ValueSet(prev') >>
                   /\ ( /\ prev'.req.cmd = SCULL_IOCXQUANTUM
                        /\ Succeeded(prev')
                        /\ req[c].arg.mem = prev'.out[1] )
                        => /\ scull_quantum' = prev'.out[1]
                           /\ last'.out = << prev'.req.arg.mem >> ]_vars

\* Two EXCHANGEs in a row, the second given what the first returned: the
\* quantum is back at its value and the reference holds the first one's v.
C11_Witness ==
    /\ prev.req.cmd = SCULL_IOCXQUANTUM /\ Succeeded(prev)
    /\ last.req.cmd = SCULL_IOCXQUANTUM /\ Succeeded(last)
    /\ last.req.arg.mem = prev.out[1]
    /\ prev.req.arg.mem # prev.out[1]
    /\ scull_quantum = prev.out[1]
    /\ last.out = << prev.req.arg.mem >>

\* C12: with no other call under way, SHIFT(v) returns what QUERY returns in
\* the state it is run in, leaves in scull_quantum what TELL(v) stores, and,
\* like them, leaves the list and the mutex alone.
C12_ShiftEquivalence ==
    [][ \A c \in Callers :
          /\ ShiftSet(c)
                => /\ ShiftResult(c) = QueryResult
                   /\ scull_quantum' = TellValue(req[c])
                   /\ task_info_node_list' = task_info_node_list
                   /\ task_info_node_mutex' = task_info_node_mutex
          /\ (IoctlReturn(c) /\ req[c].cmd = SCULL_IOCHQUANTUM)
                => /\ last'.ret = ShiftResult(c)
                   /\ scull_quantum' = TellValue(req[c])
                   /\ task_info_node_list' = task_info_node_list
                   /\ task_info_node_mutex' = task_info_node_mutex
                   /\ ( /\ prev'.req.cmd = SCULL_IOCQQUANTUM
                        /\ access_ok(prev'.req.arg, prev'.req.cmd.size) )
                        => last'.ret = prev'.ret ]_vars

\* A SHIFT has returned the old quantum and stored a different new one.
C12_Witness ==
    /\ last.req.cmd = SCULL_IOCHQUANTUM
    /\ scull_quantum = last.req.arg.val
    /\ last.ret # scull_quantum
    /\ last.ret < 0

\* C13: right after a SET that returned 0 with its reference holding v, or
\* after a TELL(v), with no other call under way, a QUERY returns v and a
\* GET that returns 0 has written v to its reference.
C13_SetTellQueryGetAgree ==
    LET v == IF prev.req.cmd = SCULL_IOCSQUANTUM
               THEN prev.req.arg.mem
               ELSE prev.req.arg.val
    IN  (prev.req.cmd \in { SCULL_IOCSQUANTUM, SCULL_IOCTQUANTUM } /\ Succeeded(prev))
          => /\ ( /\ last.req.cmd = SCULL_IOCQQUANTUM
                  /\ access_ok(last.req.arg, last.req.cmd.size) )
                  => last.ret = v
             /\ (last.req.cmd = SCULL_IOCGQUANTUM /\ Succeeded(last))
                  => last.out = << v >>

\* A GET has read back the negative value a SET stored just before it.
C13_Witness ==
    /\ prev.req.cmd = SCULL_IOCSQUANTUM /\ Succeeded(prev)
    /\ prev.req.arg.mem < 0
    /\ last.req.cmd = SCULL_IOCGQUANTUM /\ Succeeded(last)
    /\ last.out = << prev.req.arg.mem >>

\* C14: a failed allocation in IDENTIFY leaves the list as it was and the
\* identity unrecorded, and the call goes on to the unlock; every IDENTIFY
\* that reaches the unlock, after a failed allocation as well, releases the
\* mutex and then returns 0 with the snapshot written; an insert whose allocation
\* succeeds, a later one by the same identity included, appends the identity
\* at the tail.
C14_AllocationFailureNonFatal ==
    [][ \A c \in Callers :
          /\ IdentifyInsert(c, FALSE)
                => /\ task_info_node_list' = task_info_node_list
                   /\ ~Found(task_info_node_list', c)
                   /\ pc'[c] = "unlock"
                   /\ task_info_node_mutex' = c
          /\ IdentifyUnlock(c)
                => /\ task_info_node_mutex' = NoOwner
                   /\ task_info_node_list' = task_info_node_list
                   /\ pc'[c] = "ret"
          /\ (IoctlReturn(c) /\ req[c].cmd = SCULL_IOCIQUANTUM)
                => /\ task_info_node_mutex' # c
                   /\ task_info_node_list' = task_info_node_list
                   /\ last'.ret = 0
                   /\ last'.out = << CurrentPid(c), CurrentTgid(c) >>
          /\ IdentifyInsert(c, TRUE)
                => task_info_node_list' = Append(task_info_node_list, Identity(c)) ]_vars

\* An IDENTIFY of caller c has returned 0 and c is on no list (its
\* allocation failed), d was recorded meanwhile, and a later IDENTIFY by c
\* holds the mutex and is about to insert c behind d.
C14_Witness ==
    \E c, d \in Callers :
        /\ c # d
        /\ alloc_err
        /\ lifecycle = "live"
        /\ first_done = << Identity(c) >>
        /\ inserted = << Identity(d) >>
        /\ task_info_node_list = << Identity(d) >>
        /\ pc[c] = "insert"
        /\ task_info_node_mutex = c

\* C15: in every reachable state no two nodes of the list hold the same
\* (pid, tgid) pair.
C15_NoDuplicates ==
    \A i, j \in 1..Len(task_info_node_list) :
        task_info_node_list[i] = task_info_node_list[j] => i = j

\* Every caller is on the list and one of them, recorded by an earlier call,
\* has run the scan again and is at the unlock.
C15_Witness ==
    \E c \in Callers :
        /\ ~alloc_err
        /\ Len(task_info_node_list) = NumCallers
        /\ pc[c] = "unlock"
        /\ last.ret = 0
        /\ last.out = << CurrentPid(c), CurrentTgid(c) >>

\* C16: until the drain loop of the teardown runs, a step leaves the list as
\* it is or appends one node, the identity of the inserting caller, at its
\* tail; the nodes already there keep their place and their pid and tgid.
C16_ListGrowsAtTail ==
    [][ (lifecycle # "cleanup_loop")
          => \/ task_info_node_list' = task_info_node_list
             \/ \E c \in Callers :
                   /\ IdentifyInsert(c, TRUE)
                   /\ task_info_node_list' = Append(task_info_node_list, Identity(c)) ]_vars

\* A second node has just been appended behind the first.
C16_Witness ==
    \E c \in Callers :
        /\ lifecycle = "live"
        /\ pc[c] = "unlock"
        /\ Len(task_info_node_list) = 2
        /\ task_info_node_list[2] = Identity(c)
        /\ task_info_node_list[1] # Identity(c)

\* The seven commands that work on scull_quantum.
QuantumCmds == RecognizedCmds \ { SCULL_IOCIQUANTUM }

\* A step of caller c's IDENTIFY after its entry: lock, scan, insert, unlock,
\* return.
IdentifyStep(c) ==
    \/ IdentifyLock(c)
    \/ IdentifyScan(c)
    \/ \E ok \in BOOLEAN : IdentifyInsert(c, ok)
    \/ IdentifyUnlock(c)
    \/ IoctlReturn(c) /\ req[c].cmd = SCULL_IOCIQUANTUM

\* C17: a step of RESET, SET, TELL, GET, QUERY, EXCHANGE or SHIFT leaves the
\* list and the mutex as they are and never enters the locked section; a step
\* of GET, QUERY or IDENTIFY leaves scull_quantum as it is; a step of an
\* IDENTIFY whose caller is already on the list leaves the list as it is.
C17_FrameConditions ==
    [][ \A c \in Callers :
          /\ \A r \in SeqRequests :
                /\ (r.cmd \in QuantumCmds /\ Ioctl(c, r))
                      => /\ task_info_node_list' = task_info_node_list
                         /\ task_info_node_mutex' = task_info_node_mutex
                         /\ pc'[c] \in { "idle", "xchg_get", "shift_set", "ret" }
                /\ ( /\ r.cmd \in { SCULL_IOCGQUANTUM, SCULL_IOCQQUANTUM, SCULL_IOCIQUANTUM }
                     /\ Ioctl(c, r) )
                      => scull_quantum' = scull_quantum
          /\ (ExchangeGet(c) \/ ShiftSet(c))
                => /\ task_info_node_list' = task_info_node_list
                   /\ task_info_node_mutex' = task_info_node_mutex
                   /\ pc'[c] = "ret"
          /\ IoctlReturn(c)
                => /\ task_info_node_list' = task_info_node_list
                   /\ task_info_node_mutex' = task_info_node_mutex
                   /\ scull_quantum' = scull_quantum
                   /\ pc'[c] = "idle"
          /\ IdentifyStep(c)
                => /\ scull_quantum' = scull_quantum
                   /\ Identity(c) \in Range(task_info_node_list)
                        => task_info_node_list' = task_info_node_list ]_vars

\* An EXCHANGE has run to its end while its caller was on the list, right
\* after an IDENTIFY by that caller.
C17_Witness ==
    /\ task_info_node_list = << Identity(1) >>
    /\ inserted = << Identity(1) >>
    /\ task_info_node_mutex = NoOwner
    /\ prev.req.cmd = SCULL_IOCIQUANTUM /\ Succeeded(prev)
    /\ last.req.cmd = SCULL_IOCXQUANTUM /\ Succeeded(last)
    /\ scull_quantum # SCULL_QUANTUM

\* C18: under the scheduling above every ioctl that has been entered returns
\* (its caller is idle again), a task waiting for the mutex included, and a
\* teardown that has started runs to its end.
C18_EveryCommandCompletes ==
    /\ \A c \in Callers : (pc[c] \notin { "closed", "idle" }) ~> (pc[c] = "idle")
    /\ (lifecycle = "cleanup_lock") ~> (lifecycle = "unloaded")

\* One IDENTIFY waits for the mutex held by another whose allocation has
\* just failed.
C18_Witness ==
    \E c, d \in Callers :
        /\ c # d
        /\ pc[c] = "lock"
        /\ pc[d] = "unlock"
        /\ task_info_node_mutex = d
        /\ alloc_err
        /\ task_info_node_list = << >>

\* C19: the drain of an empty list prints nothing and leaves the list empty;
\* the drain that has run printed what the loop prints for the nodes
\* inserted, and left the list empty and the mutex free, so that a second
\* run of the loop would take the mutex, print no line and free no node.
C19_DrainIdempotent ==
    /\ DrainReport(<< >>, 1) = << >>
    /\ (lifecycle = "cleanup_loop" /\ inserted = << >>)
          => /\ klog = << >>
             /\ task_info_node_list = << >>
    /\ CleanupDrained
          => /\ klog = DrainReport(inserted, 1)
             /\ task_info_node_list = << >>
             /\ task_info_node_mutex = NoOwner
             /\ DrainReport(task_info_node_list, 1) = << >>

\* The module was live, no IDENTIFY recorded anything, and the drain has run
\* on the empty list.
C19_Witness ==
    /\ lifecycle = "cdev_del"
    /\ acquired.cdev = 1
    /\ last.req.cmd = SCULL_IOCIQUANTUM
    /\ inserted = << >>
    /\ klog = << >>
    /\ count = 1
    /\ task_info_node_mutex = NoOwner

\* C20 as stated: a QUERY or a SHIFT that passed the checks before the switch
\* never returns the value returned for an unrecognized command (-ENOTTY) or
\* for an inaccessible argument (-EFAULT).
C20_SuccessDistinguishable ==
    ( /\ last.req.cmd \in { SCULL_IOCQQUANTUM, SCULL_IOCHQUANTUM }
      /\ access_ok(last.req.arg, last.req.cmd.size) )
        => last.ret \notin { -ENOTTY, -EFAULT }

====
